---- MODULE Spec2Model ----
(***************************************************************************)
(* Model of the SourceIQ analysis service (src/services/geminiService.ts): *)
(* the API key manager, the parallel prompt dispatcher and the report      *)
(* aggregation of analyzeRepo.                                             *)
(***************************************************************************)
EXTENDS Integers, Sequences, FiniteSets, TLC

(* ------------------------------ bounds --------------------------------- *)
\* largest number of configured credentials explored for the key manager
MaxKeys == 3
\* number of clock advances explored for the key manager
MaxTicks == 3

(* ---------------------------- constants -------------------------------- *)
\* getNextKey: failure marks are dropped after more than one hour (ms)
ResetWindowMs == 3600000
\* value standing for JavaScript null
Null == "null"
\* clock advances explored: one millisecond or one full hour
TickSteps == {1, ResetWindowMs}

VARIABLES
    \* ---- APIKeyManager fields
    apiKeys,          \* sequence of credentials (index 0 is position 1)
    currentKeyIndex,  \* 0-based cursor
    failedKeys,       \* set of 0-based indices marked failed
    lastResetTime,    \* ms
    \* ---- environment of the key manager
    now,              \* Date.now()
    ticks,            \* number of clock advances so far
    \* ---- observation of the last key manager call
    poolOp,           \* "new", "mark", "next" or "tick"
    poolRet,          \* value returned by the last getNextKey()
    poolExamined,     \* candidate indices examined by the last getNextKey()
    poolPre,          \* fields of the manager when the last call started
    markedAt          \* per index: time of its latest failure mark, -1 if none

VARIABLES
    \* ---- one run of analyzeRepo
    usableKeys,       \* apiKeys.length inside analyzeAllFeatures
    pc,               \* "start", "fetching", "launched" or "done"
    fetchStatus,      \* "none", "badurl", "pending", "ok" or a failure
    task,             \* per prompt: "idle", "pending", "ok" or "fail"
    elapsed,          \* ms since the prompt tasks were launched
    timer,            \* the overall timeout: "off", "armed" or "fired"
    features,         \* completion of analyzeAllFeatures
    outcome           \* completion of analyzeRepo

VARIABLES
    \* ---- one call of callGeminiWithSpecificKey made for a prompt task
    envKeys,          \* the configured entries after split(',') and trim
    chainPrompt,      \* index of the prompt the task was created for
    chainStatus,      \* "idle", "running", "returned" or "raised"
    keyIndicesToTry,  \* the order in which key indices are attempted
    attempt,          \* loop counter of the attempt loop
    lastError,        \* class of the last attempt's error, "none" if none
    chainLog          \* the model calls made so far, with the wait after each

VARIABLES
    \* ---- one call of parseGeminiResponse
    parseText,        \* the text handed to the parser (sequence of characters)
    parseOut          \* "none" before the call, then what the call produced

VARIABLES
    \* ---- calls of chatWithRepo sharing the module-level key manager
    chatVariant,      \* the service module in use: "service" or "part_003"
    chatReport,       \* the report the conversation is about
    chat              \* per caller: position, attempt, key in use, log, result

VARIABLES
    \* ---- a run whose inputs are fixed when the prompt tasks are launched
    githubData,       \* what getRepositoryData has returned
    plan,             \* per prompt: how its task is going to end
    arrived           \* the successful prompt tasks, in order of completion

poolVars == <<apiKeys, currentKeyIndex, failedKeys, lastResetTime, now, ticks,
              poolOp, poolRet, poolExamined, poolPre, markedAt>>

runVars == <<usableKeys, pc, fetchStatus, task, elapsed, timer, features,
             outcome>>

chainVars == <<envKeys, chainPrompt, chainStatus, keyIndicesToTry, attempt,
               lastError, chainLog>>

parseVars == <<parseText, parseOut>>

chatVars == <<chatVariant, chatReport, chat>>

orderVars == <<githubData, plan, arrived>>

vars == <<poolVars, runVars, chainVars, parseVars, chatVars, orderVars>>

(* ======================= APIKeyManager ================================= *)

\* the i-th configured credential
Credential(i) == <<"key", i>>

\* a configuration string holding n credentials, after split/trim/filter
ConfiguredKeys(n) == [i \in 1..n |-> Credential(i)]

\* as APIKeyManagerNew, but an empty list is kept empty
APIKeyManagerNoPlaceholder(configured) == configured

\* constructor: an empty list is replaced by the placeholder credential
APIKeyManagerNew(configured) ==
    IF Len(configured) = 0 THEN <<"fallback-key">> ELSE configured

\* apiKeys[index] with a 0-based index
KeyAt(keys, index) == keys[index + 1]

getCurrentKey == KeyAt(apiKeys, currentKeyIndex)

\* as WindowElapsed, but the window lasts a day instead of an hour
WindowElapsedDaily(t, lastReset) == t - lastReset > ResetWindowMs * 24

\* the hourly test at the head of getNextKey
WindowElapsed(t, lastReset) == t - lastReset > ResetWindowMs

\* as NextIndex, but the scan starts at the cursor itself
NextIndexFromCursor(cursor, i, n) == (cursor + i) % n

\* candidate examined in iteration i of the scan
NextIndex(cursor, i, n) == (cursor + 1 + i) % n

\* as ScanKeys, but without the forced reset: null when every key is failed
ScanNoForcedReset(keys, cursor, failed) ==
    LET n == Len(keys)
        hits == {i \in 0..(n - 1) : NextIndex(cursor, i, n) \notin failed}
    IN
    IF hits # {}
    THEN LET first == CHOOSE i \in hits : \A j \in hits : i <= j
         IN  [cursor |-> NextIndex(cursor, first, n), failed |-> failed,
              reset |-> FALSE, ret |-> KeyAt(keys, NextIndex(cursor, first, n)),
              examined |-> first + 1]
    ELSE [cursor |-> cursor, failed |-> failed, reset |-> FALSE,
          ret |-> Null, examined |-> n]

\* as ScanKeys, but the forced reset leaves the cursor where it was
ScanKeepCursor(keys, cursor, failed) ==
    LET n == Len(keys)
        hits == {i \in 0..(n - 1) : NextIndex(cursor, i, n) \notin failed}
    IN  IF hits # {}
        THEN LET first == CHOOSE i \in hits : \A j \in hits : i <= j
             IN  [cursor |-> NextIndex(cursor, first, n), failed |-> failed,
                  reset |-> FALSE,
                  ret |-> KeyAt(keys, NextIndex(cursor, first, n)),
                  examined |-> first + 1]
        ELSE [cursor |-> cursor, failed |-> {}, reset |-> TRUE,
              ret |-> KeyAt(keys, cursor), examined |-> n]

\* the scan of getNextKey followed by the forced reset when the scan finds
\* nothing: the new cursor, failed set, whether a reset happened, the value
\* returned and the number of candidates examined
ScanKeys(keys, cursor, failed) ==
    LET n == Len(keys)
        hits == {i \in 0..(n - 1) : NextIndex(cursor, i, n) \notin failed}
    IN  IF hits # {}
        THEN LET first == CHOOSE i \in hits : \A j \in hits : i <= j
             IN  [cursor |-> NextIndex(cursor, first, n), failed |-> failed,
                  reset |-> FALSE,
                  ret |-> KeyAt(keys, NextIndex(cursor, first, n)),
                  examined |-> first + 1]
        ELSE [cursor |-> 0, failed |-> {}, reset |-> TRUE,
              ret |-> KeyAt(keys, 0), examined |-> n]

\* as AddFailed, but the set is replaced instead of extended
AddFailedOnly(failed, cursor) == {cursor}

\* failedKeys.add(currentKeyIndex)
AddFailed(failed, cursor) == failed \cup {cursor}

markCurrentKeyAsFailed ==
    /\ failedKeys' = AddFailed(failedKeys, currentKeyIndex)
    /\ poolOp' = "mark"
    /\ poolPre' = [cursor |-> currentKeyIndex, failed |-> failedKeys,
                   elapsed |-> WindowElapsed(now, lastResetTime),
                   lastReset |-> lastResetTime]
    /\ markedAt' = [markedAt EXCEPT ![currentKeyIndex] = now]
    /\ UNCHANGED <<apiKeys, currentKeyIndex, lastResetTime, now, ticks,
                   poolRet, poolExamined>>
    /\ UNCHANGED <<runVars, chainVars, parseVars, chatVars, orderVars>>

getNextKey ==
    LET expired == WindowElapsed(now, lastResetTime)
        failed1 == IF expired THEN {} ELSE failedKeys
        r == ScanKeys(apiKeys, currentKeyIndex, failed1)
    IN  /\ currentKeyIndex' = r.cursor
        /\ failedKeys' = r.failed
        /\ lastResetTime' = IF expired \/ r.reset THEN now ELSE lastResetTime
        /\ poolRet' = r.ret
        /\ poolExamined' = r.examined
        /\ poolOp' = "next"
        /\ poolPre' = [cursor |-> currentKeyIndex, failed |-> failedKeys,
                       elapsed |-> expired, lastReset |-> lastResetTime]
        /\ UNCHANGED <<apiKeys, now, ticks, markedAt>>
        /\ UNCHANGED <<runVars, chainVars, parseVars, chatVars, orderVars>>

\* the wall clock advances between two calls
Tick ==
    /\ ticks < MaxTicks
    /\ \E d \in TickSteps : now' = now + d
    /\ ticks' = ticks + 1
    /\ poolOp' = "tick"
    /\ UNCHANGED <<apiKeys, currentKeyIndex, failedKeys, lastResetTime,
                   poolRet, poolExamined, poolPre, markedAt>>
    /\ UNCHANGED <<runVars, chainVars, parseVars, chatVars, orderVars>>

\* the module-level manager built from a configuration of n credentials
PoolNew(n) ==
    /\ apiKeys = APIKeyManagerNew(ConfiguredKeys(n))
    /\ currentKeyIndex = 0
    /\ failedKeys = {}
    /\ now = 0
    /\ lastResetTime = 0
    /\ ticks = 0
    /\ poolOp = "new"
    /\ poolRet = Null
    /\ poolExamined = 0
    /\ poolPre = [cursor |-> 0, failed |-> {}, elapsed |-> FALSE,
                  lastReset |-> 0]
    /\ markedAt = [i \in 0..(Len(apiKeys) - 1) |-> -1]

(* ======================= analysis run: data ============================ *)

\* the 11 prompts of analyzeAllFeatures, by 0-based index
Prompts == 0..10

\* the top-level key each prompt asks the model to return
PromptKeys ==
    <<"structure", "code_quality", "documentation", "testing",
      "version_control", "security", "performance", "dependencies",
      "deployment", "business_alignment", "overall_assessment">>

PromptKey(i) == PromptKeys[i + 1]

\* the 10 dimensions averaged by analyzeRepo
CoreDimensions == {PromptKey(i) : i \in 0..9}

\* the object {} and the empty array
EmptyObject == [k \in {} |-> 0]

\* a state of analyzeRepo before it is called, for a configuration of n keys
RunNew(n) ==
    /\ usableKeys = n
    /\ pc = "start"
    /\ fetchStatus = "none"
    /\ task = [i \in Prompts |-> "idle"]
    /\ elapsed = 0
    /\ timer = "off"
    /\ features = [status |-> "none", value |-> EmptyObject, error |-> <<>>,
                   cause |-> "none", results |-> EmptyObject, at |-> 0]
    /\ outcome = [kind |-> "none", report |-> EmptyObject,
                  usingFallback |-> FALSE, error |-> <<>>, cause |-> "none"]

\* no task chain has been started
ChainIdle ==
    /\ envKeys = <<"usable">>
    /\ chainPrompt = 0
    /\ chainStatus = "idle"
    /\ keyIndicesToTry = <<>>
    /\ attempt = 0
    /\ lastError = "none"
    /\ chainLog = <<>>

\* the parser has not been called
ParseIdle ==
    /\ parseText = <<>>
    /\ parseOut = [kind |-> "none"]

\* the callers of chatWithRepo
Callers == {1, 2}

\* a caller that has not called yet
IdleCall ==
    [status |-> "idle", attempt |-> 0, keyIndex |-> -1, lastError |-> "none",
     log |-> <<>>, out |-> [kind |-> "none", text |-> <<>>, shown |-> <<>>]]

\* no run with fixed inputs is under way
OrderIdle ==
    /\ githubData = EmptyObject
    /\ plan = [i \in Prompts |-> "fail"]
    /\ arrived = <<>>

\* nobody is chatting
ChatIdle ==
    /\ chatVariant = "service"
    /\ chatReport = EmptyObject
    /\ chat = [c \in Callers |-> IdleCall]

InitPool ==
    /\ \E n \in 0..MaxKeys : PoolNew(n) /\ RunNew(n)
    /\ ChainIdle
    /\ ParseIdle
    /\ ChatIdle
    /\ OrderIdle

NextPool ==
    \/ markCurrentKeyAsFailed
    \/ getNextKey
    \/ Tick

SpecPool == InitPool /\ [][NextPool]_vars

PoolIndices == 0..(Len(apiKeys) - 1)
PoolCredentials == {KeyAt(apiKeys, i) : i \in PoolIndices}

(* ======================= analysis run: messages ======================== *)

\* Error messages are sequences of fragments; a fragment contains the
\* substrings that the code's message.includes() tests look for.
FragmentPatterns(f) ==
    CASE f = "GitHub API rate limit exceeded: " -> {"rate limit"}
      [] f = "403" -> {"403"}
      [] f = "429" -> {"429"}
      [] f = "Too Many Requests" -> {"Too Many Requests"}
      [] f = "Insufficient successful responses: " ->
             {"Insufficient successful responses"}
      [] OTHER -> {}

\* message.includes(pat)
Includes(msg, pat) == \E i \in DOMAIN msg : pat \in FragmentPatterns(msg[i])

\* decimal text of the small counts that appear in messages
NumText(n) ==
    <<"0", "1", "2", "3", "4", "5", "6", "7", "8", "9", "10", "11", "12",
      "13", "14", "15", "16", "17", "18", "19", "20">>[n + 1]

\* outcomes of the first GitHub request
FetchFailures == {"404", "403", "429", "500", "network"}

\* the error thrown by fetchGitHub for a failed request
FetchErrorMessage(status) ==
    CASE status = "404" -> <<"Repository not found or private: ", "404">>
      [] status = "403" -> <<"GitHub API rate limit exceeded: ", "403">>
      [] status = "429" -> <<"GitHub API error: ", "429", " ",
                             "Too Many Requests">>
      [] status = "500" -> <<"GitHub API error: ", "500", " ",
                             "Internal Server Error">>
      [] OTHER -> <<"Failed to fetch">>

\* the error thrown by getRepositoryData
RepositoryDataError(status) ==
    <<"GitHub API error: ">> \o FetchErrorMessage(status)

\* the error thrown by analyzeAllFeatures when the fetch failed
CannotAnalyzeError(status) ==
    <<"Cannot analyze repository: ">> \o RepositoryDataError(status)

InvalidUrlError == <<"Invalid GitHub repository URL format">>

\* timeoutDuration of analyzeAllFeatures, in ms
TimeoutDuration(n) == IF n >= 10 THEN 90000 ELSE 120000

OverallTimeoutError(n) ==
    <<"Overall analysis timeout after ",
      IF TimeoutDuration(n) = 90000 THEN "1.5" ELSE "2", " minutes">>

InsufficientError(successCount) ==
    <<"Insufficient successful responses: ", NumText(successCount),
      "/5 minimum required features completed">>

\* the substrings for which analyzeRepo substitutes the mock data
FallbackPatterns ==
    {"quota", "429", "rate limit", "Too Many Requests", "API key", "403",
     "Insufficient successful responses"}

UseFallback(msg) == \E pat \in FallbackPatterns : Includes(msg, pat)

(* ======================= analysis run: records ========================= *)

Medals == {"Platinum", "Gold", "Silver", "Bronze"}

\* n list entries of a field of a module
Items(key, field, n) == [j \in 1..n |-> <<key, field, j>>]

\* a module record as the prompts ask for it
ModuleRecord(key, score, medal, n) ==
    [score |-> score, medal |-> medal,
     strengths |-> Items(key, "strengths", n),
     weaknesses |-> Items(key, "weaknesses", n),
     hidden_risks |-> Items(key, "hidden_risks", n),
     real_world_impact |-> <<key, "real_world_impact">>,
     failure_scenario |-> <<key, "failure_scenario">>,
     remediation_steps |-> Items(key, "remediation_steps", n)]

ModuleFields ==
    {"score", "medal", "strengths", "weaknesses", "hidden_risks",
     "real_world_impact", "failure_scenario", "remediation_steps"}

getDefaultModule(moduleType) ==
    [score |-> 50, medal |-> "Bronze",
     strengths |-> <<<<moduleType, "analysis was incomplete">>>>,
     weaknesses |-> <<"Analysis interrupted due to technical issues">>,
     hidden_risks |-> <<"Unable to complete full analysis">>,
     real_world_impact |-> <<moduleType, "analysis needs to be retried">>,
     failure_scenario |-> "Technical analysis failure - please retry the analysis.",
     remediation_steps |-> <<"Retry the analysis", "Check API response format",
                             "Verify repository access">>]

\* the object parseGeminiResponse returns when no stage can parse the text
ParserFallbackObject ==
    [score |-> 50, medal |-> "Bronze",
     strengths |-> <<"Analysis partially completed">>,
     weaknesses |-> <<"JSON parsing error occurred">>,
     hidden_risks |-> <<"Unable to complete full analysis">>,
     real_world_impact |-> "Analysis was interrupted due to response parsing issues.",
     failure_scenario |-> "Technical analysis failure - please retry.",
     remediation_steps |-> <<"Retry the analysis", "Check API response format">>]

MockScores ==
    [structure |-> 78, code_quality |-> 82, documentation |-> 65,
     testing |-> 45, version_control |-> 70, security |-> 72,
     performance |-> 75, dependencies |-> 68, deployment |-> 80,
     business_alignment |-> 73]

MockMedals ==
    [structure |-> "Silver", code_quality |-> "Silver",
     documentation |-> "Bronze", testing |-> "Bronze",
     version_control |-> "Bronze", security |-> "Silver",
     performance |-> "Silver", dependencies |-> "Bronze",
     deployment |-> "Silver", business_alignment |-> "Silver"]

getMockAnalysisData ==
    [k \in CoreDimensions |-> ModuleRecord(k, MockScores[k], MockMedals[k], 3)]

(* ======================= analysis run: processing ====================== *)

\* sizes of the usable key list explored for a run
RunPoolSizes == {3, 10}

\* score and medal of the well-formed replies of a run, and the length of
\* their lists
ReplySamples == {<<0, "Bronze">>, <<72, "Gold">>, <<100, "Platinum">>}
ReplyItems == 2

\* largest number of tasks of one run whose reply is unparseable text
MaxGarbled == 1

\* granularity of the clock of a run and the latest instant explored (ms)
ClockStepMs == 120000
MaxElapsedMs == 240000

Min(a, b) == IF a <= b THEN a ELSE b

Has(all, k) == k \in DOMAIN all

Settled(t) == {i \in Prompts : t[i] \in {"ok", "fail"}}

\* as ParsedData, but a well-formed reply yields the module record itself
\* instead of the object keyed by the dimension
ParsedDataUnwrapped(i, kind, score, medal) ==
    IF kind = "ok" /\ i <= 9
    THEN ModuleRecord(PromptKey(i), score, medal, ReplyItems)
    ELSE ParserFallbackObject

\* what parseGeminiResponse returns for the reply of prompt i: the requested
\* object for a well-formed reply, the fallback object for unparseable text
ParsedData(i, kind, score, medal) ==
    IF kind = "ok"
    THEN IF i <= 9
         THEN PromptKey(i) :> ModuleRecord(PromptKey(i), score, medal, ReplyItems)
         ELSE PromptKey(i) :> [maturity_level |-> "Intermediate",
                               technical_debt_score |-> score,
                               scaling_readiness |-> score]
    ELSE ParserFallbackObject

\* as JoinReady, but all-or-nothing: a failed task ends the wait at once
JoinReadyFailFast(t) ==
    \/ Settled(t) = Prompts
    \/ \E i \in Prompts : t[i] = "fail"

\* Promise.allSettled(promises): ready when every task promise has settled
JoinReady(t) == Settled(t) = Prompts

\* the array of settled outcomes handed to results.forEach; the text of the
\* tasks in garbled is unparseable, the text of the other successes is the
\* JSON object the prompt asked for
CollectResults(t, garbled) ==
    [i \in Settled(t) |->
        [index |-> i, success |-> t[i] = "ok",
         kind |-> IF t[i] = "fail" THEN "fail"
                  ELSE IF i \in garbled THEN "garbled" ELSE "ok"]]

\* results.forEach: Object.assign of every parsed reply, in index order
RECURSIVE AssignResults(_, _, _, _, _)
AssignResults(results, i, acc, score, medal) ==
    IF i > 10 THEN acc
    ELSE AssignResults(results, i + 1,
             IF i \in DOMAIN results /\ results[i].success
             THEN ParsedData(i, results[i].kind, score, medal) @@ acc
             ELSE acc,
             score, medal)

\* the success test of analyzeAllFeatures
EnoughFeatures(successCount) == successCount >= 5

FeaturesReturned(value, results, at) ==
    [status |-> "returned", value |-> value, error |-> <<>>,
     cause |-> "none", results |-> results, at |-> at]

FeaturesRaised(error, cause, results, at) ==
    [status |-> "raised", value |-> EmptyObject, error |-> error,
     cause |-> cause, results |-> results, at |-> at]

\* analyzeAllFeatures from the join to its return or throw
ProcessResults(t, garbled, score, medal, at) ==
    LET results == CollectResults(t, garbled)
        successfulResults == AssignResults(results, 0, EmptyObject, score, medal)
        successCount == Cardinality(DOMAIN successfulResults)
    IN  IF EnoughFeatures(successCount)
        THEN FeaturesReturned(successfulResults, results, at)
        ELSE FeaturesRaised(InsufficientError(successCount), "insufficient",
                            results, at)

(* ======================= analysis run: aggregation ===================== *)

\* allResults.<key>?.score || fallback
ScoreOr(all, k, fallback) ==
    IF Has(all, k) /\ all[k].score # 0 THEN all[k].score ELSE fallback

\* Math.round of sum / n for non-negative sums
RoundedMean(sum, n) == (2 * sum + n) \div (2 * n)

RECURSIVE SumScores(_, _)
SumScores(all, i) ==
    IF i > 9 THEN 0 ELSE ScoreOr(all, PromptKey(i), 50) + SumScores(all, i + 1)

MaturityLevel(overallScore) ==
    IF overallScore >= 80 THEN "Advanced"
    ELSE IF overallScore >= 60 THEN "Intermediate" ELSE "Beginner"

RiskSources == <<"structure", "security", "performance">>

RoadmapSources ==
    <<"structure", "code_quality", "testing", "security", "deployment">>

\* the spread of allResults.<key>.<field> over the listed keys
RECURSIVE SpreadField(_, _, _, _)
SpreadField(all, keys, field, i) ==
    IF i > Len(keys) THEN <<>>
    ELSE all[keys[i]][field] \o SpreadField(all, keys, field, i + 1)

Take(seq, n) == SubSeq(seq, 1, Min(n, Len(seq)))

\* the unguarded property reads of the report literal throw a TypeError
AggregationThrows(all) ==
    \E i \in DOMAIN RiskSources \cup DOMAIN RoadmapSources :
        \/ (i \in DOMAIN RiskSources /\ ~Has(all, RiskSources[i]))
        \/ (i \in DOMAIN RoadmapSources /\ ~Has(all, RoadmapSources[i]))

ModuleOrDefault(all, k, moduleType) ==
    IF Has(all, k) THEN all[k] ELSE getDefaultModule(moduleType)

DefaultVulnerabilities ==
    <<[issue |-> "Security analysis incomplete", severity |-> 5]>>

ReportModules(all) ==
    [structure |-> ModuleOrDefault(all, "structure", "structure"),
     code_quality |-> ModuleOrDefault(all, "code_quality", "code_quality"),
     documentation |-> ModuleOrDefault(all, "documentation", "documentation"),
     testing |-> ModuleOrDefault(all, "testing", "testing"),
     version_control |-> ModuleOrDefault(all, "version_control", "version_control"),
     security |-> ModuleOrDefault(all, "security", "security")
                  @@ [vulnerabilities |-> DefaultVulnerabilities],
     operational |-> ModuleOrDefault(all, "deployment", "operational"),
     professionalism |-> ModuleOrDefault(all, "version_control", "professionalism"),
     business |-> ModuleOrDefault(all, "business_alignment", "business"),
     scalability |-> ModuleOrDefault(all, "performance", "scalability")]

ReportModuleNames ==
    {"structure", "code_quality", "documentation", "testing",
     "version_control", "security", "operational", "professionalism",
     "business", "scalability"}

\* the repository of the run: its URL and the name parsed from it
RepoUrl == "https://github.com/owner/repo"
RepoName == "repo"

\* maturityLevel.toLowerCase()
ToLowerCase(level) ==
    CASE level = "Advanced" -> "advanced"
      [] level = "Intermediate" -> "intermediate"
      [] level = "Beginner" -> "beginner"

TeamRecommendation ==
    <<[role |-> "Senior Developer", count |-> 1,
       justification |-> "Lead architecture and code quality improvements"],
      [role |-> "DevOps Engineer", count |-> 1,
       justification |-> "Improve deployment and operational practices"]>>

\* allResults.repo?.<field> || fallback
RepoField(all, field, fallback) ==
    IF Has(all, "repo") THEN all.repo[field] ELSE fallback

\* the number of dependencies above 20, counted only for a dependencies
\* score below 70
UnusedDependencies(all) ==
    LET n == IF Has(all, "packageJson") THEN all.packageJson.dependencies
             ELSE 0
    IN  IF ScoreOr(all, "dependencies", 100) < 70 /\ n > 20 THEN n - 20 ELSE 0

\* the fullReport literal of analyzeRepo; every roadmap entry carries the
\* same dimension and reason, so an entry is represented by its action;
\* age_months of allResults.repo stands for the months since created_at
BuildReport(all) ==
    LET overallScore == RoundedMean(SumScores(all, 0), 10)
    IN  [repo_metadata |->
             [name |-> RepoName,
              language_stack |-> IF Has(all, "languages") THEN all.languages
                                 ELSE <<"Unknown">>,
              age_months |-> RepoField(all, "age_months", 12),
              stars |-> RepoField(all, "stargazers_count", 0),
              forks |-> RepoField(all, "forks_count", 0)],
         critical_flags |->
             [has_tests |-> \/ Has(all, "hasTests") /\ all.hasTests
                            \/ ScoreOr(all, "testing", 0) > 50,
              has_readme |-> \/ ~Has(all, "readme")
                             \/ all.readme # Null
                             \/ ScoreOr(all, "documentation", 0) > 50,
              has_license |-> \/ ~Has(all, "repo")
                              \/ all.repo.license # Null,
              secrets_detected |-> ScoreOr(all, "security", 100) < 70,
              unused_dependencies |-> UnusedDependencies(all)],
         home_page |->
             [overview |-> <<"Comprehensive analysis of ", RepoName,
                             " repository">>,
              executive_summary |->
                  <<"Repository scored ", ToString(overallScore),
                    "/100 with ", ToLowerCase(MaturityLevel(overallScore)),
                    " maturity level">>,
              team_recommendation |-> TeamRecommendation,
              overall_score |-> overallScore,
              maturity_level |-> MaturityLevel(overallScore),
              risk_snapshot |->
                  Take(SpreadField(all, RiskSources, "hidden_risks", 1), 3)],
         modules |-> ReportModules(all),
         improvement_roadmap |->
             Take(SpreadField(all, RoadmapSources, "remediation_steps", 1), 8),
         repo_url |-> RepoUrl]

ReportOutcome(report, usingFallback) ==
    [kind |-> "report", report |-> report, usingFallback |-> usingFallback,
     error |-> <<>>, cause |-> "none"]

ErrorOutcome(error, cause) ==
    [kind |-> "error", report |-> EmptyObject, usingFallback |-> FALSE,
     error |-> error, cause |-> cause]

\* lines 1135-1255: the report, or the error of the outer catch
Aggregate(all, usingFallback) ==
    IF AggregationThrows(all)
    THEN ErrorOutcome(<<"Repository analysis failed: ",
                        "Cannot read properties of undefined">>, "aggregation")
    ELSE ReportOutcome(BuildReport(all), usingFallback)

\* analyzeRepo from the completion of analyzeAllFeatures to its own
CompleteAnalysis(f) ==
    IF f.status = "raised"
    THEN IF UseFallback(f.error)
         THEN Aggregate(getMockAnalysisData, TRUE)
         ELSE ErrorOutcome(<<"Repository analysis failed: ",
                             "Analysis failed: ">> \o f.error, f.cause)
    ELSE Aggregate(f.value, FALSE)

(* ======================= analysis run: steps =========================== *)

\* analyzeRepo is called: parseRepoUrl, then the first GitHub request
StartAnalysis ==
    /\ pc = "start"
    /\ \E valid \in BOOLEAN :
         IF valid
         THEN /\ pc' = "fetching"
              /\ fetchStatus' = "pending"
              /\ UNCHANGED <<features, outcome>>
         ELSE /\ pc' = "done"
              /\ fetchStatus' = "badurl"
              /\ features' = FeaturesRaised(InvalidUrlError, "url",
                                            EmptyObject, 0)
              /\ outcome' = CompleteAnalysis(features')
    /\ UNCHANGED <<usableKeys, task, elapsed, timer>>
    /\ UNCHANGED <<poolVars, chainVars, parseVars, chatVars, orderVars>>

\* as LaunchTasks, but only the first prompt task is started
LaunchFirstTask(t) == [t EXCEPT ![0] = "pending"]

\* prompts.map(async ...): every prompt task runs up to the await of its
\* first model request before map returns
LaunchTasks(t) == [i \in Prompts |-> "pending"]

\* getRepositoryData completes; on success every prompt task is started and
\* the overall timeout is armed
FetchDone ==
    /\ pc = "fetching"
    /\ \E st \in {"ok"} \cup FetchFailures :
         /\ fetchStatus' = st
         /\ IF st = "ok"
            THEN /\ pc' = "launched"
                 /\ task' = LaunchTasks(task)
                 /\ timer' = "armed"
                 /\ UNCHANGED <<features, outcome>>
            ELSE /\ pc' = "done"
                 /\ features' = FeaturesRaised(CannotAnalyzeError(st), "fetch",
                                               EmptyObject, 0)
                 /\ outcome' = CompleteAnalysis(features')
                 /\ UNCHANGED <<task, timer>>
    /\ UNCHANGED <<usableKeys, elapsed>>
    /\ UNCHANGED <<poolVars, chainVars, parseVars, chatVars, orderVars>>

\* the promise of prompt task i settles: callGeminiWithSpecificKey returned
\* a non-empty text ("ok") or threw after its last attempt ("fail")
TaskSettle(i) ==
    /\ task[i] = "pending"
    /\ \E kind \in {"ok", "fail"} : task' = [task EXCEPT ![i] = kind]
    /\ UNCHANGED <<usableKeys, pc, fetchStatus, elapsed, timer, features,
                   outcome>>
    /\ UNCHANGED <<poolVars, chainVars, parseVars, chatVars, orderVars>>

TimerDue == timer = "armed" /\ elapsed >= TimeoutDuration(usableKeys)

\* time passes while the run waits; it never skips a timer that is due
Advance ==
    /\ pc = "launched"
    /\ ~TimerDue
    /\ elapsed < MaxElapsedMs
    /\ elapsed' = IF timer = "armed"
                  THEN Min(elapsed + ClockStepMs, TimeoutDuration(usableKeys))
                  ELSE elapsed + ClockStepMs
    /\ UNCHANGED <<usableKeys, pc, fetchStatus, task, timer, features, outcome>>
    /\ UNCHANGED <<poolVars, chainVars, parseVars, chatVars, orderVars>>

\* as RaceRejects, but the join is awaited alone and the timeout is ignored
RaceIgnoresTimeout(p) == FALSE

\* Promise.race: the timeout rejection wins while the join has not completed
RaceRejects(p) == p = "launched"

\* the setTimeout callback of overallTimeout runs
TimerFire ==
    /\ TimerDue
    /\ timer' = "fired"
    /\ IF RaceRejects(pc)
       THEN /\ features' = FeaturesRaised(OverallTimeoutError(usableKeys),
                                          "timeout", EmptyObject, elapsed)
            /\ outcome' = CompleteAnalysis(features')
            /\ pc' = "done"
       ELSE UNCHANGED <<features, outcome, pc>>
    /\ UNCHANGED <<usableKeys, fetchStatus, task, elapsed>>
    /\ UNCHANGED <<poolVars, chainVars, parseVars, chatVars, orderVars>>

\* the join wins the race: results are processed and analyzeRepo completes
Join ==
    /\ pc = "launched"
    /\ JoinReady(task)
    /\ \E sample \in ReplySamples,
          garbled \in SUBSET {i \in Prompts : task[i] = "ok"} :
         /\ Cardinality(garbled) <= MaxGarbled
         /\ features' = ProcessResults(task, garbled, sample[1], sample[2],
                                       elapsed)
         /\ outcome' = CompleteAnalysis(features')
    /\ pc' = "done"
    /\ UNCHANGED <<usableKeys, fetchStatus, task, elapsed, timer>>
    /\ UNCHANGED <<poolVars, chainVars, parseVars, chatVars, orderVars>>

InitRun ==
    /\ \E n \in RunPoolSizes : PoolNew(n) /\ RunNew(n)
    /\ ChainIdle
    /\ ParseIdle
    /\ ChatIdle
    /\ OrderIdle

NextRun ==
    \/ StartAnalysis
    \/ FetchDone
    \/ \E i \in Prompts : TaskSettle(i)
    \/ Advance
    \/ TimerFire
    \/ Join

SpecRun == InitRun /\ [][NextRun]_vars

(* ---------------------- properties of the key manager ------------------ *)

\* C1: every getNextKey() call returns a credential of the pool, never null,
\* after examining at most N candidate indices.
C1_NextKeyReturnsCredential ==
    poolOp = "next" =>
        /\ poolRet # Null
        /\ poolRet \in PoolCredentials
        /\ poolExamined <= Len(apiKeys)

\* C1 witness: getNextKey() was called on a pool of several credentials that
\* were all marked failed.
C1_Witness ==
    /\ poolOp = "next"
    /\ Len(apiKeys) >= 2
    /\ poolPre.failed = PoolIndices
    /\ poolExamined = Len(apiKeys)

\* C2 as stated: whenever all N credentials are marked failed at the call,
\* getNextKey() empties the failed set, sets the cursor to 0 and returns the
\* credential at index 0.
C2_Original ==
    (poolOp = "next" /\ poolPre.failed = PoolIndices) =>
        /\ failedKeys = {}
        /\ currentKeyIndex = 0
        /\ poolRet = KeyAt(apiKeys, 0)

\* C2 amended: the same, provided no more than one hour has elapsed since the
\* last reset when the call is made.
C2_ResetWithinWindow ==
    (poolOp = "next" /\ poolPre.failed = PoolIndices /\ ~poolPre.elapsed) =>
        /\ failedKeys = {}
        /\ currentKeyIndex = 0
        /\ poolRet = KeyAt(apiKeys, 0)

\* C2 witness: a forced reset that moved the cursor back from a later index.
C2_Witness ==
    /\ poolOp = "next"
    /\ poolPre.failed = PoolIndices
    /\ ~poolPre.elapsed
    /\ poolPre.cursor > 0
    /\ currentKeyIndex = 0

(* ---------------------- properties of the analysis run ----------------- *)

\* the success policy of analyzeAllFeatures was evaluated in this run
PolicyEvaluated ==
    features.status = "returned" \/ features.cause = "insufficient"

\* the prompts whose reply was parsed into the object the prompt asked for
ParsedPrompts ==
    {i \in DOMAIN features.results : features.results[i].kind = "ok"}

FailedPrompts ==
    {i \in DOMAIN features.results : features.results[i].kind = "fail"}

\* the case of C3: 6 core tasks succeeded with well-formed output and every
\* other task failed
SixCoreSucceeded ==
    /\ PolicyEvaluated
    /\ ParsedPrompts \subseteq 0..9
    /\ Cardinality(ParsedPrompts) = 6
    /\ FailedPrompts = Prompts \ ParsedPrompts

\* C3: with no batch timeout, when the tasks of 6 core dimensions succeed
\* with well-formed output and the other tasks fail, analyzeAllFeatures
\* returns and the keys of the returned map are exactly the dimensions whose
\* tasks succeeded.
C3_SixSuccessesReturned ==
    SixCoreSucceeded =>
        /\ features.status = "returned"
        /\ DOMAIN features.value = {PromptKey(i) : i \in ParsedPrompts}

\* C3 witness: such a run returned, and the structure task was among the
\* failed ones.
C3_Witness ==
    /\ SixCoreSucceeded
    /\ features.status = "returned"
    /\ 0 \in FailedPrompts

\* C4 as stated: the run returns the map if and only if at least 5 of the 10
\* core dimensions were obtained by parsing the output of a successful task,
\* and otherwise raises InsufficientResults naming the success count.
C4_Original ==
    PolicyEvaluated =>
        LET core == ParsedPrompts \cap 0..9
        IN  /\ features.status = "returned" <=> Cardinality(core) >= 5
            /\ features.status = "raised" =>
                   features.error = InsufficientError(Cardinality(core))

\* C5: absent the batch timeout, every launched task has produced exactly
\* one outcome, success or failure, and all of them are collected when the
\* success policy is evaluated; a failed task does not cut the others short.
C5_AllOutcomesCollected ==
    PolicyEvaluated =>
        /\ DOMAIN features.results = Prompts
        /\ \A i \in Prompts :
               /\ task[i] \in {"ok", "fail"}
               /\ features.results[i].index = i
               /\ features.results[i].success <=> task[i] = "ok"

\* C5 witness: the policy was evaluated in a run where the first task failed
\* and a later task succeeded.
C5_Witness ==
    /\ PolicyEvaluated
    /\ task[0] = "fail"
    /\ task[10] = "ok"

\* the aggregation step of analyzeRepo ran in this run
Aggregated ==
    /\ pc = "done"
    /\ features.status = "returned" \/ UseFallback(features.error)

\* a report with all 10 module entries and every report field populated
ReportPopulated(r) ==
    /\ DOMAIN r = {"repo_metadata", "critical_flags", "home_page", "modules",
                   "improvement_roadmap", "repo_url"}
    /\ DOMAIN r.modules = ReportModuleNames
    /\ \A m \in ReportModuleNames : ModuleFields \subseteq DOMAIN r.modules[m]

\* C6 as stated: for every subset of the 10 dimensions present in the
\* partial results the aggregation step completes without raising, with all
\* 10 module entries populated and 0 <= overall_score <= 100.
C6_Original ==
    Aggregated =>
        /\ outcome.kind = "report"
        /\ ReportPopulated(outcome.report)
        /\ outcome.report.home_page.overall_score \in 0..100

\* C7 as stated: analyzeRepo completes either with a fully populated report
\* or with an error caused by the repository fetch or the URL parse.
C7_Original ==
    pc = "done" =>
        \/ outcome.kind = "report" /\ ReportPopulated(outcome.report)
        \/ outcome.kind = "error" /\ outcome.cause \in {"fetch", "url"}

\* C8 as stated: when the dispatcher fails with InsufficientResults or with
\* the overall timeout, analyzeRepo returns the complete mock report.
C8_Original ==
    (pc = "done" /\ features.cause \in {"insufficient", "timeout"}) =>
        /\ outcome.kind = "report"
        /\ outcome.usingFallback
        /\ outcome.report = BuildReport(getMockAnalysisData)

\* C9 as stated: if the repository fetch fails, no model call is made in the
\* run and analyzeRepo raises an error instead of returning a report.
C9_Original ==
    fetchStatus \in FetchFailures =>
        /\ \A i \in Prompts : task[i] = "idle"
        /\ outcome.kind = "error"

\* the batch deadline C10 names, in ms
ClaimedDeadline == IF usableKeys >= 10 THEN 90000 ELSE 120000

\* C10: once the tasks are launched analyzeAllFeatures completes no later
\* than the batch deadline (90 s with at least 10 credentials, else 120 s),
\* even while some task never settles.
C10_CompletesByDeadline ==
    /\ pc = "launched" => elapsed <= ClaimedDeadline
    /\ (PolicyEvaluated \/ features.cause = "timeout") =>
           features.at <= ClaimedDeadline

\* C10 witness: the deadline of a 10-key run ended the run while a task was
\* still pending.
C10_Witness ==
    /\ usableKeys >= 10
    /\ features.cause = "timeout"
    /\ features.at = 90000
    /\ \E i \in Prompts : task[i] = "pending"

(* ------------------- further properties of the key manager ------------- *)

\* the first index not in failed, in the circular order cursor+1, ..., cursor
FirstAvailable(cursor, failed, n) ==
    LET d == CHOOSE e \in 1..n :
                 /\ (cursor + e) % n \notin failed
                 /\ \A f \in 1..(e - 1) : (cursor + f) % n \in failed
    IN  (cursor + d) % n

\* no more than one hour separates the last call from the reset before it
WithinWindow == now - poolPre.lastReset <= ResetWindowMs

\* C15 as stated: when at least one credential is not marked failed,
\* getNextKey() moves the cursor to, and returns, the first non-failed index
\* in the circular order cursor+1, ..., cursor and leaves the failed set
\* unchanged.
C15_Original ==
    (poolOp = "next" /\ poolPre.failed # PoolIndices) =>
        /\ currentKeyIndex =
               FirstAvailable(poolPre.cursor, poolPre.failed, Len(apiKeys))
        /\ poolRet = KeyAt(apiKeys, currentKeyIndex)
        /\ failedKeys = poolPre.failed

\* C15 amended: the same, provided no more than one hour has elapsed since
\* the last reset when the call is made.
C15_FirstAvailableWithinWindow ==
    (poolOp = "next" /\ poolPre.failed # PoolIndices /\ WithinWindow) =>
        /\ currentKeyIndex =
               FirstAvailable(poolPre.cursor, poolPre.failed, Len(apiKeys))
        /\ poolRet = KeyAt(apiKeys, currentKeyIndex)
        /\ failedKeys = poolPre.failed

\* C15 witness: within the window, the scan skipped failed credentials and
\* came back round to the cursor's own index.
C15_Witness ==
    /\ poolOp = "next"
    /\ WithinWindow
    /\ Len(apiKeys) = 3
    /\ Cardinality(poolPre.failed) = 2
    /\ poolPre.cursor \notin poolPre.failed
    /\ currentKeyIndex = poolPre.cursor

\* C16: markCurrentKeyAsFailed() adds exactly the cursor's index to the
\* failed set and leaves the cursor, the credential list and the last-reset
\* time unchanged.
C16_MarkFrame ==
    [][poolOp' = "mark" =>
          /\ failedKeys' = failedKeys \cup {currentKeyIndex}
          /\ currentKeyIndex' = currentKeyIndex
          /\ apiKeys' = apiKeys
          /\ lastResetTime' = lastResetTime]_vars

\* C16 witness: a mark added a second index to a non-empty failed set.
C16_Witness ==
    /\ poolOp = "mark"
    /\ poolPre.failed # {}
    /\ poolPre.cursor \notin poolPre.failed
    /\ Cardinality(failedKeys) = 2

\* C17: if more than one hour has elapsed since the last reset when
\* getNextKey() is called, every failure mark is cleared, the last-reset time
\* becomes the current time and the call selects index (cursor + 1) mod N.
C17_HourlyReset ==
    (poolOp = "next" /\ ~WithinWindow) =>
        /\ failedKeys = {}
        /\ lastResetTime = now
        /\ currentKeyIndex = (poolPre.cursor + 1) % Len(apiKeys)
        /\ poolRet = KeyAt(apiKeys, currentKeyIndex)

\* C17 witness: the hourly reset let the call select an index that was
\* marked failed when the call started.
C17_Witness ==
    /\ poolOp = "next"
    /\ ~WithinWindow
    /\ currentKeyIndex \in poolPre.failed
    /\ currentKeyIndex # poolPre.cursor

\* C18 as stated: getNextKey() does not select a credential again until at
\* least one hour after it was marked failed.
C18_Original ==
    (poolOp = "next" /\ markedAt[currentKeyIndex] >= 0) =>
        now - markedAt[currentKeyIndex] >= ResetWindowMs

\* C19: in every reachable state the credential list is non-empty and
\* 0 <= cursor < N, so getCurrentKey() returns a credential of the list and
\* every value getNextKey() returned is one too.
C19_PoolWellFormed ==
    /\ Len(apiKeys) >= 1
    /\ currentKeyIndex \in PoolIndices
    /\ failedKeys \subseteq PoolIndices
    /\ getCurrentKey \in PoolCredentials
    /\ poolOp = "next" => poolRet = getCurrentKey

\* C19 witness: the pool built from an empty configuration holds the one
\* placeholder, was marked failed and still answered getNextKey().
C19_Witness ==
    /\ usableKeys = 0
    /\ Len(apiKeys) = 1
    /\ poolOp = "next"
    /\ poolPre.failed = {0}
    /\ poolRet = getCurrentKey

(* ------------------------ properties of the report --------------------- *)

\* the medal the scoring thresholds assign to a score
MedalFor(score) ==
    IF score >= 90 THEN "Platinum"
    ELSE IF score >= 75 THEN "Gold"
    ELSE IF score >= 50 THEN "Silver" ELSE "Bronze"

\* C13 as stated: in every report analyzeRepo returns, each module's medal is
\* the one its score determines (>= 90 Platinum, >= 75 Gold, >= 50 Silver,
\* else Bronze).
C13_Original ==
    outcome.kind = "report" =>
        \A m \in ReportModuleNames :
            outcome.report.modules[m].medal =
                MedalFor(outcome.report.modules[m].score)

\* the per-dimension results a returned report was built from
ReportInput ==
    IF outcome.usingFallback THEN getMockAnalysisData ELSE features.value

\* the score a dimension counts with: its own when present, 50 when missing
CountedScore(all, k) == IF Has(all, k) THEN all[k].score ELSE 50

RECURSIVE SumCounted(_, _)
SumCounted(all, i) ==
    IF i > 9 THEN 0
    ELSE CountedScore(all, PromptKey(i)) + SumCounted(all, i + 1)

\* C14 as stated: overall_score is the rounded arithmetic mean of the 10
\* dimension scores, a missing dimension counting as 50 and every present
\* dimension counting with its own score, a score of 0 included.
C14_Original ==
    outcome.kind = "report" =>
        outcome.report.home_page.overall_score =
            (SumCounted(ReportInput, 0) + 5) \div 10

(* =============== callGeminiWithSpecificKey: one task's chain =========== *)

\* largest number of configured entries explored for a task chain
MaxEnvKeys == 3

\* kinds of configured entry: a usable key, one shorter than 20 characters
\* (or a placeholder text), and an empty entry
EntryKinds == {"usable", "short", "blank"}

\* the lists split(',') can produce: it never returns an empty list
EnvLists == UNION {[1..n -> EntryKinds] : n \in 1..MaxEnvKeys}

\* analyzeAllFeatures: the 0-based positions of the entries that pass both
\* filters, in configuration order
RECURSIVE FilterKeys(_, _)
FilterKeys(env, p) ==
    IF p > Len(env) THEN <<>>
    ELSE IF env[p] = "usable" THEN <<p - 1>> \o FilterKeys(env, p + 1)
    ELSE FilterKeys(env, p + 1)

\* the value standing for NaN as a key index
NaNIndex == -1

\* a % n in JavaScript for a >= 0 or NaN, n >= 0
JsMod(a, n) == IF a = NaNIndex \/ n = 0 THEN NaNIndex ELSE a % n

\* keyIndex = index % apiKeys.length, over the filtered list
TaskKeyIndex(index, env) == JsMod(index, Len(FilterKeys(env, 1)))

Max(a, b) == IF a >= b THEN a ELSE b

\* maxFallbacks = Math.min(5, Math.max(3, Math.floor(apiKeys.length / 2)))
MaxFallbacks(n) == Min(5, Max(3, n \div 2))

\* the other indices, in increasing order from index i on
RECURSIVE OtherIndices(_, _, _)
OtherIndices(safe, i, n) ==
    IF i >= n THEN <<>>
    ELSE IF i # safe THEN <<i>> \o OtherIndices(safe, i + 1, n)
    ELSE OtherIndices(safe, i + 1, n)

\* as BuildKeyIndices, but the first index is listed again among the others
BuildKeyIndicesAll(keyIndex, n) ==
    <<JsMod(keyIndex, n)>> \o [i \in 1..n |-> i - 1]

\* keyIndicesToTry: keyIndex % apiKeys.length over the unfiltered list, then
\* every other index
BuildKeyIndices(keyIndex, n) ==
    <<JsMod(keyIndex, n)>> \o OtherIndices(JsMod(keyIndex, n), 0, n)

\* as AttemptLimit, but every listed index is attempted
AttemptLimitAllKeys(env) == Len(keyIndicesToTry)

\* the bound of the attempt loop
AttemptLimit(env) ==
    Min(MaxFallbacks(Len(FilterKeys(env, 1))), Len(keyIndicesToTry))

\* classes of failed attempt, by the tests of the catch block
ErrorClasses ==
    {"invalid", "overloaded", "quota", "network", "timeout", "empty", "other"}

\* as WaitAfter, but the loop never sleeps
WaitAfterNone(class, att, len) == 0

\* ms slept in the catch block before the loop goes on
WaitAfter(class, att, len) ==
    IF class \in {"invalid", "quota"} THEN 0
    ELSE IF class = "overloaded" THEN 3000
    ELSE IF class \in {"network", "timeout"} THEN 2000
    ELSE IF att < len - 1 THEN 1000 ELSE 0

\* apiKeys[currentKeyIndex] of the unfiltered list
EntryAt(env, index) ==
    IF index = NaNIndex THEN "undefined" ELSE env[index + 1]

\* the call made by attempt number attempt
CallOf(result, wait) ==
    [index |-> keyIndicesToTry[attempt + 1],
     entry |-> EntryAt(envKeys, keyIndicesToTry[attempt + 1]),
     result |-> result, wait |-> wait]

\* as RecordError, but the first error is kept
KeepFirstError(previous, class) ==
    IF previous = "none" THEN class ELSE previous

\* lastError = error
RecordError(previous, class) == class

\* the prompt task calls callGeminiWithSpecificKey(prompt, keyIndex, ...)
ChainStart ==
    /\ chainStatus = "idle"
    /\ chainStatus' = "running"
    /\ keyIndicesToTry' =
           BuildKeyIndices(TaskKeyIndex(chainPrompt, envKeys), Len(envKeys))
    /\ UNCHANGED <<envKeys, chainPrompt, attempt, lastError, chainLog>>
    /\ UNCHANGED <<poolVars, runVars, parseVars, chatVars, orderVars>>

\* as Throws, but an empty text is handed back like any other text
ThrowsOnRejection(result) == result \notin {"ok", "empty"}

\* the try block throws: the request was rejected or timed out, or the text
\* of the response is empty; "ok" is a response with non-empty text
Throws(result) == result # "ok"

\* an attempt receives a text that the try block accepts: the call returns it
AttemptReturns ==
    /\ chainStatus = "running"
    /\ attempt < AttemptLimit(envKeys)
    /\ \E result \in {"ok", "empty"} :
           /\ ~Throws(result)
           /\ chainLog' = Append(chainLog, CallOf(result, 0))
    /\ chainStatus' = "returned"
    /\ UNCHANGED <<envKeys, chainPrompt, keyIndicesToTry, attempt, lastError>>
    /\ UNCHANGED <<poolVars, runVars, parseVars, chatVars, orderVars>>

\* an attempt fails: the catch block records the error, sleeps as the class
\* demands and the loop goes on; after the last attempt lastError is thrown
AttemptFails(class) ==
    /\ chainStatus = "running"
    /\ attempt < AttemptLimit(envKeys)
    /\ Throws(class)
    /\ lastError' = RecordError(lastError, class)
    /\ chainLog' = Append(chainLog,
           CallOf(class, WaitAfter(class, attempt, Len(keyIndicesToTry))))
    /\ attempt' = attempt + 1
    /\ chainStatus' =
           IF attempt + 1 < AttemptLimit(envKeys) THEN "running" ELSE "raised"
    /\ UNCHANGED <<envKeys, chainPrompt, keyIndicesToTry>>
    /\ UNCHANGED <<poolVars, runVars, parseVars, chatVars, orderVars>>

\* a task chain for one prompt under one configuration
ChainNew(env, index) ==
    /\ envKeys = env
    /\ chainPrompt = index
    /\ chainStatus = "idle"
    /\ keyIndicesToTry = <<>>
    /\ attempt = 0
    /\ lastError = "none"
    /\ chainLog = <<>>

\* what the promise of the prompt task resolves to once the call is over
TaskOutcome ==
    IF chainStatus = "returned"
    THEN [success |-> TRUE, response |-> "text", error |-> "none"]
    ELSE [success |-> FALSE, response |-> "none", error |-> lastError]

\* pools large enough for 4 and for 5 attempts
LargePoolSizes == {8, 10}

\* configurations of that many usable credentials
LargeEnvLists == {[p \in 1..n |-> "usable"] : n \in LargePoolSizes}

InitChain ==
    /\ \E env \in EnvLists \cup LargeEnvLists, index \in Prompts :
           /\ PoolNew(Len(FilterKeys(env, 1)))
           /\ RunNew(Len(FilterKeys(env, 1)))
           /\ ChainNew(env, index)
    /\ ParseIdle
    /\ ChatIdle
    /\ OrderIdle

NextChain ==
    \/ ChainStart
    \/ AttemptReturns
    \/ \E class \in ErrorClasses : AttemptFails(class)

SpecChain == InitChain /\ [][NextChain]_vars

(* ----------------------- properties of the task chain ------------------ *)

\* the usable credentials of the configuration, as 0-based positions
UsablePool == FilterKeys(envKeys, 1)

\* C20 as stated: for a pool of N >= 1 usable credentials, the first
\* credential attempted for prompt index i is the credential at position
\* i mod N of that pool.
C20_Original ==
    (Len(chainLog) >= 1 /\ Len(UsablePool) >= 1) =>
        chainLog[1].index = UsablePool[(chainPrompt % Len(UsablePool)) + 1]

(* ========================= JSON.parse ================================== *)
\* A text is a sequence of characters, each a string of length one.  A longer
\* string is a word: a run of letters holding no character that the parser or
\* JSON treats specially; words only occur right after a double quote or in
\* prose, never after a backslash or a code fence.

Whitespace == {" ", "\n", "\t", "\r"}

Digits == {"0", "1", "2", "3", "4", "5", "6", "7", "8", "9"}

HexDigits == Digits \cup {"a", "b", "c", "d", "e", "f",
                          "A", "B", "C", "D", "E", "F"}

\* the character an escape sequence \x stands for ("BS" is the backspace)
Escapes ==
    [x \in {"\"", "\\", "/", "b", "f", "n", "r", "t"} |->
        CASE x = "b" -> "BS" [] x = "f" -> "\f" [] x = "n" -> "\n"
          [] x = "r" -> "\r" [] x = "t" -> "\t" [] OTHER -> x]

\* a JSON value: tag, characters (string, number, literal), elements or
\* member values (array, object), member keys (object)
JVal(t, s, a, k) == [t |-> t, s |-> s, a |-> a, k |-> k]

JStr(chars) == JVal("str", chars, <<>>, <<>>)

JNum(lexeme) == JVal("num", lexeme, <<>>, <<>>)

JLit(word) == JVal("lit", word, <<>>, <<>>)

JArr(elements) == JVal("arr", <<>>, elements, <<>>)

JObj(keys, values) == JVal("obj", <<>>, values, keys)

\* the parse of a value failed (SyntaxError)
Fail == [ok |-> FALSE, val |-> JVal("none", <<>>, <<>>, <<>>), next |-> 0]

\* a value was parsed; next is the index of the first character after it
Ok(val, next) == [ok |-> TRUE, val |-> val, next |-> next]

\* the text holds word at index i
StartsWith(t, i, word) ==
    /\ i + Len(word) - 1 <= Len(t)
    /\ SubSeq(t, i, i + Len(word) - 1) = word

RECURSIVE SkipWs(_, _)
SkipWs(t, i) ==
    IF i <= Len(t) /\ t[i] \in Whitespace THEN SkipWs(t, i + 1) ELSE i

RECURSIVE DigitRun(_, _)
DigitRun(t, i) ==
    IF i <= Len(t) /\ t[i] \in Digits THEN DigitRun(t, i + 1) ELSE i

\* the characters of a string, from the index after its opening quote
RECURSIVE ParseChars(_, _, _)
ParseChars(t, i, acc) ==
    IF i > Len(t) THEN Fail
    ELSE IF t[i] = "\"" THEN Ok(JStr(acc), i + 1)
    ELSE IF t[i] = "\\" THEN
        IF i + 1 <= Len(t) /\ t[i + 1] \in DOMAIN Escapes
        THEN ParseChars(t, i + 2, Append(acc, Escapes[t[i + 1]]))
        ELSE IF /\ i + 5 <= Len(t)
                /\ t[i + 1] = "u"
                /\ \A j \in (i + 2)..(i + 5) : t[j] \in HexDigits
        THEN ParseChars(t, i + 6, acc \o <<"\\u">> \o SubSeq(t, i + 2, i + 5))
        ELSE Fail
    ELSE IF t[i] \in {"\n", "\t", "\r", "\f"} THEN Fail
    ELSE ParseChars(t, i + 1, Append(acc, t[i]))

\* -? (0 | [1-9][0-9]*) (. [0-9]+)? ([eE] [+-]? [0-9]+)?
ParseNumber(t, i) ==
    LET a == IF t[i] = "-" THEN i + 1 ELSE i
        okInt == a <= Len(t) /\ t[a] \in Digits
        b == IF t[a] = "0" THEN a + 1 ELSE DigitRun(t, a)
        hasFrac == b <= Len(t) /\ t[b] = "."
        c == IF hasFrac THEN DigitRun(t, b + 1) ELSE b
        okFrac == hasFrac => c > b + 1
        hasExp == c <= Len(t) /\ t[c] \in {"e", "E"}
        d0 == IF c + 1 <= Len(t) /\ t[c + 1] \in {"+", "-"}
              THEN c + 2 ELSE c + 1
        d == IF hasExp THEN DigitRun(t, d0) ELSE c
        okExp == hasExp => d > d0
    IN  IF okInt /\ okFrac /\ okExp
        THEN Ok(JNum(SubSeq(t, i, d - 1)), d) ELSE Fail

\* position of key in keys, 0 when absent
KeyIndex(keys, key) ==
    IF \E p \in DOMAIN keys : keys[p] = key
    THEN CHOOSE p \in DOMAIN keys : keys[p] = key ELSE 0

\* a repeated key keeps its place and takes the later value
AddMember(obj, key, val) ==
    IF KeyIndex(obj.k, key) # 0
    THEN JObj(obj.k, [obj.a EXCEPT ![KeyIndex(obj.k, key)] = val])
    ELSE JObj(Append(obj.k, key), Append(obj.a, val))

RECURSIVE ParseValue(_, _)
RECURSIVE ParseElements(_, _, _)
RECURSIVE ParseMembers(_, _, _)

\* the elements of an array, from the first character of an element
ParseElements(t, i, acc) ==
    LET v == ParseValue(t, i)
        j == SkipWs(t, v.next)
    IN  IF ~v.ok \/ j > Len(t) THEN Fail
        ELSE IF t[j] = ","
        THEN ParseElements(t, SkipWs(t, j + 1), Append(acc, v.val))
        ELSE IF t[j] = "]" THEN Ok(JArr(Append(acc, v.val)), j + 1)
        ELSE Fail

\* the members of an object, from the opening quote of a key
ParseMembers(t, i, obj) ==
    IF i > Len(t) \/ t[i] # "\"" THEN Fail
    ELSE
    LET key == ParseChars(t, i + 1, <<>>)
        c == SkipWs(t, key.next)
        v == ParseValue(t, SkipWs(t, c + 1))
        j == SkipWs(t, v.next)
    IN  IF ~key.ok \/ c > Len(t) \/ t[c] # ":" THEN Fail
        ELSE IF ~v.ok \/ j > Len(t) THEN Fail
        ELSE IF t[j] = ","
        THEN ParseMembers(t, SkipWs(t, j + 1), AddMember(obj, key.val.s, v.val))
        ELSE IF t[j] = "}" THEN Ok(AddMember(obj, key.val.s, v.val), j + 1)
        ELSE Fail

\* the value starting at index i (white space already skipped)
ParseValue(t, i) ==
    IF i > Len(t) THEN Fail
    ELSE IF t[i] = "{" THEN
        LET j == SkipWs(t, i + 1)
        IN  IF j <= Len(t) /\ t[j] = "}" THEN Ok(JObj(<<>>, <<>>), j + 1)
            ELSE ParseMembers(t, j, JObj(<<>>, <<>>))
    ELSE IF t[i] = "[" THEN
        LET j == SkipWs(t, i + 1)
        IN  IF j <= Len(t) /\ t[j] = "]" THEN Ok(JArr(<<>>), j + 1)
            ELSE ParseElements(t, j, <<>>)
    ELSE IF t[i] = "\"" THEN ParseChars(t, i + 1, <<>>)
    ELSE IF t[i] \in Digits \cup {"-"} THEN ParseNumber(t, i)
    ELSE IF StartsWith(t, i, <<"t", "r", "u", "e">>)
        THEN Ok(JLit(<<"t", "r", "u", "e">>), i + 4)
    ELSE IF StartsWith(t, i, <<"f", "a", "l", "s", "e">>)
        THEN Ok(JLit(<<"f", "a", "l", "s", "e">>), i + 5)
    ELSE IF StartsWith(t, i, <<"n", "u", "l", "l">>)
        THEN Ok(JLit(<<"n", "u", "l", "l">>), i + 4)
    ELSE Fail

\* JSON.parse(t): one value surrounded by optional white space
JsonParse(t) ==
    LET v == ParseValue(t, SkipWs(t, 1))
    IN  IF v.ok /\ SkipWs(t, v.next) = Len(t) + 1 THEN Ok(v.val, v.next)
        ELSE Fail

(* ======================= parseGeminiResponse =========================== *)

\* largest length of the arbitrary texts handed to the parser
MaxTextLen == 3

\* largest length of the string content placed in a module record text
MaxContentLen == 2

\* the backquote character, written BQ here
BackQuote == "BQ"

FenceJson == <<BackQuote, BackQuote, BackQuote, "j", "s", "o", "n">>

Fence == <<BackQuote, BackQuote, BackQuote>>

\* the least element of a non-empty set of indices
Least(S) == CHOOSE p \in S : \A q \in S : p <= q

\* text.replace(/(3 backquotes)json|(3 backquotes)/g, '') from index i on:
\* the text up to the next match, then the rest after the match
RECURSIVE RemoveFences(_, _)
RemoveFences(t, i) ==
    LET matches == {p \in i..Len(t) : StartsWith(t, p, Fence)}
        m == Least(matches)
    IN  IF matches = {} THEN SubSeq(t, i, Len(t))
        ELSE SubSeq(t, i, m - 1)
             \o RemoveFences(t, IF StartsWith(t, m, FenceJson)
                                THEN m + 7 ELSE m + 3)

\* String.prototype.trim
Trim(t) ==
    LET kept == {p \in DOMAIN t : t[p] \notin Whitespace}
    IN  IF kept = {} THEN <<>>
        ELSE SubSeq(t, CHOOSE p \in kept : \A q \in kept : p <= q,
                       CHOOSE p \in kept : \A q \in kept : p >= q)

\* t.replace(/,\s*X/g, 'X') for the closing character X, from index i on:
\* the text up to the next match, X, then the rest after the match
RECURSIVE DropTrailingCommas(_, _, _)
DropTrailingCommas(t, i, close) ==
    LET matches == {p \in i..Len(t) :
                        /\ t[p] = ","
                        /\ SkipWs(t, p + 1) <= Len(t)
                        /\ t[SkipWs(t, p + 1)] = close}
        m == Least(matches)
    IN  IF matches = {} THEN SubSeq(t, i, Len(t))
        ELSE SubSeq(t, i, m - 1) \o <<close>>
             \o DropTrailingCommas(t, SkipWs(t, m + 1) + 1, close)

\* 1-based indexOf and lastIndexOf, 0 when the character is absent
IndexOf(t, c) ==
    IF \E p \in DOMAIN t : t[p] = c
    THEN CHOOSE p \in DOMAIN t : t[p] = c /\ \A q \in 1..(p - 1) : t[q] # c
    ELSE 0

LastIndexOf(t, c) ==
    IF \E p \in DOMAIN t : t[p] = c
    THEN CHOOSE p \in DOMAIN t :
             t[p] = c /\ \A q \in (p + 1)..Len(t) : t[q] # c
    ELSE 0

\* the span from the first '{' to the last '}' when there is one
SliceObject(t) ==
    IF IndexOf(t, "{") # 0 /\ LastIndexOf(t, "}") > IndexOf(t, "{")
    THEN SubSeq(t, IndexOf(t, "{"), LastIndexOf(t, "}")) ELSE t

\* the cleaning both stages apply before parsing
CleanText(text) ==
    SliceObject(
        DropTrailingCommas(
            DropTrailingCommas(Trim(RemoveFences(text, 1)), 1, "}"), 1, "]"))

\* validJson.trim().endsWith('}')
EndsWithBrace(t) == Trim(t) # <<>> /\ Trim(t)[Len(Trim(t))] = "}"

\* the scan reaches index p with escapeNext set: an odd number of
\* backslashes stands immediately before p
Escaped(t, p) ==
    IF p = 1 \/ t[p - 1] # "\\" THEN FALSE
    ELSE LET others == {q \in 1..(p - 1) : t[q] # "\\"}
             last == IF others = {} THEN 0
                     ELSE CHOOSE q \in others : \A r \in others : q >= r
         IN  (p - 1 - last) % 2 = 1

\* as InStringAfter, but quotes are ignored
InStringNever(t, p) == FALSE

\* inString after the scan has handled index p
InStringAfter(t, p) ==
    Cardinality({q \in 1..p : t[q] = "\"" /\ ~Escaped(t, q)}) % 2 = 1

\* the scan counts the brace c at index p
CountedBrace(t, p, c) ==
    t[p] = c /\ ~Escaped(t, p) /\ ~InStringAfter(t, p)

\* braceCount after the scan has handled index p
BraceCount(t, p) ==
    Cardinality({q \in 1..p : CountedBrace(t, q, "{")})
    - Cardinality({q \in 1..p : CountedBrace(t, q, "}")})

\* the scan tries JSON.parse on the prefix ending at p and it succeeds
PrefixParses(t, p) ==
    /\ t[p] # "\\"
    /\ EndsWithBrace(SubSeq(t, 1, p))
    /\ ~Escaped(t, p)
    /\ BraceCount(t, p) = 0
    /\ JsonParse(SubSeq(t, 1, p)).ok

\* the character scan of the salvage stage: the first prefix that closes its
\* braces, ends with '}' and parses
ScanPrefixes(t) ==
    LET hits == {p \in 1..Len(t) : PrefixParses(t, p)}
    IN  IF hits = {} THEN Fail
        ELSE Ok(JsonParse(SubSeq(t, 1, Least(hits))).val, Least(hits))

\* the strings of a list as JSON strings
Words(seq) == [j \in DOMAIN seq |-> JStr(<<seq[j]>>)]

\* the literal returned when nothing parses, as a JSON value
FallbackValue ==
    JObj(<<<<"score">>, <<"medal">>, <<"strengths">>, <<"weaknesses">>,
           <<"hidden_risks">>, <<"real_world_impact">>,
           <<"failure_scenario">>, <<"remediation_steps">>>>,
         <<JNum(<<"5", "0">>),
           JStr(<<ParserFallbackObject.medal>>),
           JArr(Words(ParserFallbackObject.strengths)),
           JArr(Words(ParserFallbackObject.weaknesses)),
           JArr(Words(ParserFallbackObject.hidden_risks)),
           JStr(<<ParserFallbackObject.real_world_impact>>),
           JStr(<<ParserFallbackObject.failure_scenario>>),
           JArr(Words(ParserFallbackObject.remediation_steps))>>)

\* as GiveUp, but the parse error is rethrown
GiveUpRaise ==
    [kind |-> "raised", value |-> FallbackValue, used |-> 0]

\* the end of the salvage stage: the fallback object is returned
GiveUp ==
    [kind |-> "fallback", value |-> FallbackValue, used |-> 0]

\* parseGeminiResponse(text): the value returned, the stage that produced it
\* and the length of the cleaned text that was parsed
parseGeminiResponse(text) ==
    LET clean == CleanText(text)
        direct == JsonParse(clean)
        salvage == ScanPrefixes(clean)
    IN  IF direct.ok
        THEN [kind |-> "direct", value |-> direct.val, used |-> Len(clean)]
        ELSE IF salvage.ok
        THEN [kind |-> "salvaged", value |-> salvage.val, used |-> salvage.next]
        ELSE GiveUp

(* ------------------------- texts handed to the parser ------------------ *)

\* characters of the arbitrary texts
ParseAlphabet ==
    {"{", "}", "[", "]", ",", ":", "\"", "\\", " ", "a", "1", BackQuote}

ShortTexts == UNION {[1..n -> ParseAlphabet] : n \in 0..MaxTextLen}

\* characters of the string content of a module record text
ContentAlphabet == {"a", ",", "}", "]", "{", " ", "\"", "\\", BackQuote}

Contents == UNION {[1..n -> ContentAlphabet] : n \in 0..MaxContentLen}

Quoted(chars) == <<"\"">> \o chars \o <<"\"">>

Member(name, valueText) == Quoted(<<name>>) \o <<":">> \o valueText

\* the JSON text of a module record whose first strength is content; extra
\* is written before the closing bracket of strengths and the closing brace
ModuleText(content, extra) ==
    <<"{">> \o Member("score", <<"7", "2">>) \o <<",">>
    \o Member("medal", Quoted(<<"Silver">>)) \o <<",">>
    \o Member("strengths", <<"[">> \o Quoted(content) \o extra \o <<"]">>)
    \o <<",">>
    \o Member("weaknesses", <<"[">> \o Quoted(<<"a">>) \o <<"]">>) \o <<",">>
    \o Member("hidden_risks", <<"[", "]">>) \o <<",">>
    \o Member("real_world_impact", Quoted(<<"a">>)) \o <<",">>
    \o Member("failure_scenario", Quoted(<<"a">>)) \o <<",">>
    \o Member("remediation_steps", <<"[">> \o Quoted(<<"a">>) \o <<"]">>)
    \o extra \o <<"}">>

\* nothing, a trailing comma, a trailing comma followed by a space
Extras == {<<>>, <<",">>, <<",", " ">>}

RecordTexts == {ModuleText(c, x) : c \in Contents, x \in Extras}

\* a reply as the prompts ask for it: the record under its dimension's key
DimensionText(content) ==
    <<"{">> \o Member("structure", ModuleText(content, <<>>)) \o <<"}">>

\* a reply cut off after n characters
TruncatedTexts ==
    {SubSeq(ModuleText(<<"a">>, <<>>), 1, n) :
        n \in 0..Len(ModuleText(<<"a">>, <<>>))}

\* a fenced record between two lines of prose
WrappedText(content) ==
    <<"Here is the analysis", ":", "\n">> \o FenceJson \o <<"\n">>
    \o ModuleText(content, <<>>) \o <<"\n">> \o Fence
    \o <<"\n", "Let me know", " ", "1">>

\* fenced records between prose, one for every string content
WrappedTexts == {WrappedText(c) : c \in Contents}

\* what follows the first object of a reply that goes on after it
SalvageTails ==
    {<<"}">>, <<",", "{", "\"", "a", "}">>, <<"\n", "a", " ", "}">>}

\* a complete record followed by further content
SalvageTexts ==
    {ModuleText(c, <<>>) \o tail : c \in Contents, tail \in SalvageTails}

ParseInputs ==
    ShortTexts \cup RecordTexts \cup TruncatedTexts \cup WrappedTexts
    \cup SalvageTexts
    \cup {DimensionText(<<"a">>), WrappedText(<<"a">>),
          <<"I cannot analyze this repository">>}

\* the call parseGeminiResponse(parseText)
Parse ==
    /\ parseOut.kind = "none"
    /\ parseOut' = parseGeminiResponse(parseText)
    /\ UNCHANGED parseText
    /\ UNCHANGED <<poolVars, runVars, chainVars, chatVars, orderVars>>

InitParse ==
    /\ PoolNew(1) /\ RunNew(1)
    /\ ChainIdle
    /\ ChatIdle
    /\ OrderIdle
    /\ parseText \in ParseInputs
    /\ parseOut = [kind |-> "none"]

NextParse == Parse

SpecParse == InitParse /\ [][NextParse]_vars

(* ------------------------ properties of the parser --------------------- *)

\* the value is an object holding every field of a module record
HasModuleShape(v) ==
    /\ v.t = "obj"
    /\ \A f \in ModuleFields : \E p \in DOMAIN v.k : v.k[p] = <<f>>

Parsed == parseOut.kind # "none"

\* C11 as stated: for every string input parseGeminiResponse returns without
\* raising and the returned value has the module record shape.
C11_Original ==
    Parsed =>
        /\ parseOut.kind # "raised"
        /\ HasModuleShape(parseOut.value)

\* C11 amended: for every string input parseGeminiResponse returns without
\* raising; the value is the fallback record, which has the module record
\* shape, when neither the cleaned text nor any prefix of it tried by the
\* salvage scan parses, and otherwise it is the JSON value parsed from the
\* cleaned text or from that prefix, whatever its shape.
C11_ReturnsParsedOrFallback ==
    Parsed =>
        /\ parseOut.kind \in {"direct", "salvaged", "fallback"}
        /\ parseOut.kind = "fallback" =>
               /\ HasModuleShape(parseOut.value)
               /\ ~JsonParse(CleanText(parseText)).ok
        /\ parseOut.kind \in {"direct", "salvaged"} =>
               /\ parseOut.used \in 1..Len(CleanText(parseText))
               /\ JsonParse(SubSeq(CleanText(parseText), 1, parseOut.used))
                      = Ok(parseOut.value, parseOut.used + 1)

\* C11 witness: a reply cut off in the middle of a record came back as the
\* fallback record.
C11_Witness ==
    /\ Parsed
    /\ parseText \in TruncatedTexts
    /\ Len(parseText) > MaxTextLen
    /\ parseOut.kind = "fallback"
    /\ HasModuleShape(parseOut.value)

\* the input is a well-formed JSON text of a module record
WellFormedRecord ==
    /\ JsonParse(parseText).ok
    /\ HasModuleShape(JsonParse(parseText).val)

\* C12 as stated: for every well-formed JSON text of a module record,
\* whatever characters its string fields contain, parseGeminiResponse
\* returns data equal to the standard parse of that text.
C12_Original ==
    (Parsed /\ WellFormedRecord) =>
        /\ parseOut.kind = "direct"
        /\ parseOut.value = JsonParse(parseText).val

\* the report analyzeRepo returns when analyzeAllFeatures itself returns all
RealReportOf(all) == Aggregate(all, FALSE).report

\* C25 as stated: every report that analyzeRepo builds from substitute (mock)
\* data is labeled as a fallback inside the returned report, so that it
\* differs from the report built from real analysis results of the same
\* content.
C25_Original ==
    (outcome.kind = "report" /\ outcome.usingFallback) =>
        outcome.report # RealReportOf(getMockAnalysisData)

\* the tasks of the run that returned text no recovery stage could parse
GarbledPrompts ==
    {i \in DOMAIN features.results : features.results[i].kind = "garbled"}

\* C30 as stated: a task whose returned text cannot be parsed into a JSON
\* object by any recovery stage is treated as failed: it contributes no
\* entry to the partial result and does not count toward the 5-success
\* threshold.
C30_Original ==
    (PolicyEvaluated /\ GarbledPrompts # {}) =>
        /\ DOMAIN features.value \subseteq
               {PromptKey(i) : i \in ParsedPrompts}
        /\ features.status = "returned" => Cardinality(ParsedPrompts) >= 5

\* the core dimensions whose task has succeeded so far
CoreSucceeded == {i \in 0..9 : task[i] = "ok"}

\* C31 as stated: when the batch deadline fires while tasks are still in
\* flight, the run is reported as failed only if fewer than 5 dimensions had
\* succeeded at that moment, and no result that arrives after the deadline
\* appears in the output.
C31_Original ==
    /\ [][(timer = "armed" /\ timer' = "fired" /\ features'.status = "raised")
            => Cardinality(CoreSucceeded) < 5]_vars
    /\ [][pc = "done" => features' = features /\ outcome' = outcome]_vars

\* C36: all 11 prompt tasks of a run are launched before any of them is
\* awaited: every task's first model call is issued in the step that starts
\* the first one, before any task's outcome is known, so all tasks can be in
\* flight at the same time.
C36_LaunchedTogether ==
    /\ [][(\E i \in Prompts : task[i] = "idle" /\ task'[i] # "idle")
            => \A j \in Prompts : task[j] = "idle" /\ task'[j] = "pending"]_vars
    /\ [](pc = "launched" => \A i \in Prompts : task[i] # "idle")
    /\ []((\E i \in Prompts : task[i] \in {"ok", "fail"})
            => \A j \in Prompts : task[j] # "idle")

\* C36 witness: all 11 tasks are in flight at the same time.
C36_Witness ==
    /\ pc = "launched"
    /\ Cardinality(Prompts) = 11
    /\ \A i \in Prompts : task[i] = "pending"

\* C22 as stated: for a text made of leading prose, a code-fenced well-formed
\* JSON object and trailing prose, the prose holding no braces,
\* parseGeminiResponse returns exactly the embedded object.
C22_Original ==
    \A c \in Contents :
        (/\ Parsed
         /\ parseText = WrappedText(c)
         /\ JsonParse(ModuleText(c, <<>>)).ok)
        => parseOut.value = JsonParse(ModuleText(c, <<>>)).val

\* C23 as stated: for an otherwise well-formed JSON object text with a
\* trailing comma before a closing brace or bracket, parseGeminiResponse
\* returns the object that the text without the trailing comma denotes.
C23_Original ==
    \A c \in Contents : \A x \in Extras \ {<<>>} :
        (/\ Parsed
         /\ parseText = ModuleText(c, x)
         /\ JsonParse(ModuleText(c, <<>>)).ok)
        => parseOut.value = JsonParse(ModuleText(c, <<>>)).val

\* the lengths of the proper prefixes of t that are well-formed JSON objects
LeadingObjects(t) ==
    {p \in 1..(Len(t) - 1) :
        /\ JsonParse(SubSeq(t, 1, p)).ok
        /\ JsonParse(SubSeq(t, 1, p)).val.t = "obj"}

\* C32: if parsing the span from the first '{' to the last '}' of the
\* cleaned text fails but that span starts with a complete well-formed JSON
\* object followed by further content, parseGeminiResponse returns that
\* leading object, the shortest prefix that parses.
C32_LeadingObjectSalvaged ==
    LET clean == CleanText(parseText)
    IN  (/\ Parsed
         /\ ~JsonParse(clean).ok
         /\ LeadingObjects(clean) # {})
        => /\ parseOut.kind = "salvaged"
           /\ parseOut.used = Least(LeadingObjects(clean))
           /\ parseOut.value =
                  JsonParse(SubSeq(clean, 1, Least(LeadingObjects(clean)))).val

\* C32 witness: a complete record with a closing brace inside a string,
\* followed by the start of another object, came back as that record.
C32_Witness ==
    /\ Parsed
    /\ parseText =
           ModuleText(<<"}", "a">>, <<>>) \o <<",", "{", "\"", "a", "}">>
    /\ ~JsonParse(CleanText(parseText)).ok
    /\ parseOut.kind = "salvaged"
    /\ parseOut.value = JsonParse(ModuleText(<<"}", "a">>, <<>>)).val

(* ------------------ further properties of the task chain --------------- *)

\* C21 as stated: no model call is issued with a credential that the
\* configuration filter excludes (empty, shorter than 20 characters or a
\* placeholder).
C21_Original ==
    \A p \in DOMAIN chainLog : chainLog[p].entry = "usable"

\* the number of model calls C26 allows for a pool of n credentials
ClaimedCalls(n) ==
    LET half == n \div 2
        atLeast3 == IF half > 3 THEN half ELSE 3
    IN  IF atLeast3 < 5 THEN atLeast3 ELSE 5

\* C26: a single task issues at most min(5, max(3, floor(N/2))) model calls
\* for a pool of N credentials, whatever errors its attempts return.
C26_BoundedCalls ==
    Len(chainLog) <= ClaimedCalls(Len(UsablePool))

\* C26 witness: with 8 credentials a task gave up after exactly 4 failed
\* calls of mixed classes.
C26_Witness ==
    /\ Len(UsablePool) = 8
    /\ chainStatus = "raised"
    /\ Len(chainLog) = 4
    /\ chainLog[1].result = "quota"
    /\ chainLog[4].result = "network"

\* the calls of the chain that were followed by another call
FollowedCalls == 1..(Len(chainLog) - 1)

\* C27 as stated, on configurations holding only usable credentials: after
\* an attempt with index k fails with an invalid-credential or quota error
\* the next attempt is made without wait and uses index (k + 1) mod N.
C27_Original ==
    Len(UsablePool) = Len(envKeys) =>
        \A p \in FollowedCalls :
            chainLog[p].result \in {"invalid", "quota"} =>
                /\ chainLog[p].wait = 0
                /\ chainLog[p + 1].index # chainLog[p].index
                /\ chainLog[p + 1].index =
                       (chainLog[p].index + 1) % Len(envKeys)

\* the index that follows k in the attempt order of a task whose first index
\* is first: first itself, then the other indices in increasing order
NextInOrder(first, k, n) ==
    LET later == {i \in 0..(n - 1) : i # first /\ (k = first \/ i > k)}
    IN  CHOOSE i \in later : \A j \in later : i <= j

\* C27 amended: after an attempt fails with an invalid-credential or quota
\* error and attempts remain, the next attempt is made without wait and uses
\* the next index of the task's attempt order (the task's first index, then
\* the other indices in increasing order), never the failed one.
C27_NextInAttemptOrder ==
    \A p \in FollowedCalls :
        chainLog[p].result \in {"invalid", "quota"} =>
            /\ chainLog[p].wait = 0
            /\ chainLog[p + 1].index # chainLog[p].index
            /\ chainLog[p + 1].index =
                   NextInOrder(chainLog[1].index, chainLog[p].index,
                               Len(envKeys))

\* C27 witness: a task that started at index 1 of 3 went on to index 0 and
\* then to index 2, each time right after a quota or invalid-credential error.
C27_Witness ==
    /\ Len(envKeys) = 3
    /\ Len(chainLog) = 3
    /\ chainLog[1].index = 1 /\ chainLog[1].result = "quota"
    /\ chainLog[2].index = 0 /\ chainLog[2].result = "invalid"
    /\ chainLog[3].index = 2

\* C28: between an overloaded-service failure and the task's next model call
\* a wait of 3 s occurs, and between a network or timeout failure and the
\* next model call a wait of 1 to 2 s occurs.
C28_BackoffWaits ==
    \A p \in FollowedCalls :
        /\ chainLog[p].result = "overloaded" => chainLog[p].wait = 3000
        /\ chainLog[p].result \in {"network", "timeout"} =>
               chainLog[p].wait \in 1000..2000

\* C28 witness: a task waited 3 s after an overloaded service, then 2 s after
\* a timeout, and made a third call.
C28_Witness ==
    /\ Len(chainLog) = 3
    /\ chainLog[1].result = "overloaded" /\ chainLog[1].wait = 3000
    /\ chainLog[2].result = "timeout" /\ chainLog[2].wait = 2000

\* C29: when every attempt of the chain has failed, the task's outcome is a
\* failure carrying the error of the last attempt, and the task makes no
\* further model call.
C29_FailsWithLastError ==
    /\ [](chainStatus = "raised" =>
            /\ \A p \in DOMAIN chainLog : chainLog[p].result # "ok"
            /\ ~TaskOutcome.success
            /\ TaskOutcome.error = chainLog[Len(chainLog)].result)
    /\ [][chainStatus = "raised" => chainLog' = chainLog]_vars

\* C29 witness: a chain of three failed attempts of different classes ended.
C29_Witness ==
    /\ chainStatus = "raised"
    /\ Len(chainLog) = 3
    /\ chainLog[1].result = "overloaded"
    /\ chainLog[3].result = "empty"
    /\ TaskOutcome.error = "empty"

(* ======================= chat: callGeminiWithFallback ================== *)

\* the two service modules that export chatWithRepo
ChatVariants == {"service", "part_003"}

\* maxRetries that chatWithRepo passes to callGeminiWithFallback
ChatRetries(variant) == IF variant = "service" THEN 2 ELSE 3

\* how a model request fails: with a message holding 'quota', 'API key',
\* '403' or '429', with an empty text, or with any other message
ChatErrorClasses == {"auth", "empty", "other"}

\* the reports a conversation is about
ChatReports ==
    {BuildReport(getMockAnalysisData),
     BuildReport([k \in CoreDimensions |->
                      ModuleRecord(k, 100, "Platinum", 1)])}

\* actions.join(', ')
RECURSIVE JoinComma(_)
JoinComma(seq) ==
    IF Len(seq) = 0 THEN <<>>
    ELSE IF Len(seq) = 1 THEN <<seq[1]>>
    ELSE <<seq[1], ", ">> \o JoinComma(Tail(seq))

\* the text part_003 returns from its catch block
CannedReply(report) ==
    <<"I'm having trouble accessing the AI service right now. However, based on the analysis of ",
      report.repo_metadata.name,
      ", I can see it has an overall score of ",
      ToString(report.home_page.overall_score),
      "/100 with ",
      ToLowerCase(report.home_page.maturity_level),
      " maturity. The main areas for improvement include: ">>
    \o JoinComma(Take(report.improvement_roadmap, 3))
    \o <<". Please try your question again in a moment.">>

\* what handleSend appends to the conversation when chatWithRepo rejects
ConnectionInterrupted == <<"Connection interrupted. Re-establishing link...">>

\* chatWithRepo and handleSend once callGeminiWithFallback has returned text
ChatAnswered(text) == [kind |-> "reply", text |-> text, shown |-> text]

\* chatWithRepo and handleSend once callGeminiWithFallback has thrown: the
\* service module lets the error through, part_003 answers from the report
ChatFailed(variant, error, report) ==
    IF variant = "part_003"
    THEN [kind |-> "canned", text |-> CannedReply(report),
          shown |-> CannedReply(report)]
    ELSE [kind |-> "raised", text |-> <<error>>,
          shown |-> ConnectionInterrupted]

\* one entry of a caller's log: the key index the request was built with,
\* how the request ended, the index marked failed (-1 if none) and the
\* sleep that followed
ChatCall(keyIndex, result, marked, wait) ==
    [keyIndex |-> keyIndex, result |-> result, marked |-> marked,
     wait |-> wait]

\* handleSend calls chatWithRepo, which enters the attempt loop: the key is
\* read from the manager and the request is issued
ChatSend(c) ==
    /\ chat[c].status = "idle"
    /\ chat' = [chat EXCEPT ![c].status = "calling",
                            ![c].keyIndex = currentKeyIndex]
    /\ UNCHANGED <<chatVariant, chatReport>>
    /\ UNCHANGED <<poolVars, runVars, chainVars, parseVars, orderVars>>

\* the sleep of the catch block is over: next iteration of the attempt loop
ChatRetry(c) ==
    /\ chat[c].status = "waiting"
    /\ chat' = [chat EXCEPT ![c].status = "calling",
                            ![c].keyIndex = currentKeyIndex]
    /\ UNCHANGED <<chatVariant, chatReport>>
    /\ UNCHANGED <<poolVars, runVars, chainVars, parseVars, orderVars>>

\* the request resolves with a non-empty text
ChatReplies(c) ==
    /\ chat[c].status = "calling"
    /\ chat' = [chat EXCEPT
           ![c].status = "returned",
           ![c].log = Append(@, ChatCall(chat[c].keyIndex, "ok", -1, 0)),
           ![c].out = ChatAnswered(<<"reply">>)]
    /\ UNCHANGED <<chatVariant, chatReport>>
    /\ UNCHANGED <<poolVars, runVars, chainVars, parseVars, orderVars>>

\* the request fails: the catch block of the attempt loop, up to its sleep
\* or, after the last attempt, up to the completion of chatWithRepo
ChatFails(c, class) ==
    LET a == chat[c].attempt
        maxRetries == ChatRetries(chatVariant)
        isAuth == class = "auth"
        marked == AddFailed(failedKeys, currentKeyIndex)
        expired == WindowElapsed(now, lastResetTime)
        r == ScanKeys(apiKeys, currentKeyIndex,
                      IF expired THEN {} ELSE marked)
        exhausted == isAuth /\ r.ret = Null /\ a = maxRetries - 1
        wait == IF exhausted THEN 0
                ELSE IF isAuth THEN 1000 * (a + 1)
                ELSE IF a < maxRetries - 1 THEN 2000 * (a + 1) ELSE 0
        over == exhausted \/ a + 1 >= maxRetries
        error == IF exhausted THEN "exhausted" ELSE class
    IN  /\ chat[c].status = "calling"
        /\ chat' = [chat EXCEPT
               ![c].status = IF over THEN "raised" ELSE "waiting",
               ![c].attempt = a + 1,
               ![c].lastError = error,
               ![c].log = Append(@, ChatCall(chat[c].keyIndex, class,
                              IF isAuth THEN currentKeyIndex ELSE -1, wait)),
               ![c].out = IF over
                          THEN ChatFailed(chatVariant, error, chatReport)
                          ELSE @]
        /\ IF isAuth
           THEN /\ currentKeyIndex' = r.cursor
                /\ failedKeys' = r.failed
                /\ lastResetTime' =
                       IF expired \/ r.reset THEN now ELSE lastResetTime
                /\ poolRet' = r.ret
                /\ poolExamined' = r.examined
                /\ poolOp' = "next"
                /\ poolPre' = [cursor |-> currentKeyIndex, failed |-> marked,
                               elapsed |-> expired,
                               lastReset |-> lastResetTime]
                /\ markedAt' = [markedAt EXCEPT ![currentKeyIndex] = now]
                /\ UNCHANGED <<apiKeys, now, ticks>>
           ELSE UNCHANGED poolVars
        /\ UNCHANGED <<chatVariant, chatReport>>
        /\ UNCHANGED <<runVars, chainVars, parseVars, orderVars>>

InitChat ==
    /\ \E n \in 0..MaxKeys : PoolNew(n) /\ RunNew(n)
    /\ ChainIdle
    /\ ParseIdle
    /\ chatVariant \in ChatVariants
    /\ chatReport \in ChatReports
    /\ chat = [c \in Callers |-> IdleCall]
    /\ OrderIdle

NextChat ==
    \/ \E c \in Callers : ChatSend(c)
    \/ \E c \in Callers : ChatRetry(c)
    \/ \E c \in Callers : ChatReplies(c)
    \/ \E c \in Callers : \E class \in ChatErrorClasses : ChatFails(c, class)

SpecChat == InitChat /\ [][NextChat]_vars

(* ------------------------- properties of the chat ---------------------- *)

\* C24 as stated: chatWithRepo never raises when the model call fails on
\* every attempt: it returns the canned text built from the report's
\* repository name, overall score, maturity level and first roadmap actions.
C24_Original ==
    \A c \in Callers :
        chat[c].status = "raised" =>
            /\ chat[c].out.kind = "canned"
            /\ chat[c].out.text = CannedReply(chatReport)

(* ---------------- the task chain: empty replies, indices, marks -------- *)

\* C37: a model call that completes with empty text is a failed attempt: it
\* never makes the task succeed, and the task proceeds to its next attempt
\* or, if none remains, fails.
C37_EmptyTextFails ==
    /\ chainStatus = "returned" => chainLog[Len(chainLog)].result = "ok"
    /\ \A p \in DOMAIN chainLog :
           (chainLog[p].result = "empty" /\ p = Len(chainLog)) =>
               /\ attempt = p
               /\ IF p < AttemptLimit(envKeys)
                  THEN chainStatus = "running"
                  ELSE chainStatus = "raised" /\ ~TaskOutcome.success

\* C37 witness: an empty text on the first attempt was followed by a second
\* attempt, whose text was empty too, and a third one, after which the task
\* failed with the empty-response error.
C37_Witness ==
    /\ Len(chainLog) = 3
    /\ chainLog[1].result = "empty"
    /\ chainLog[2].result = "empty"
    /\ chainLog[3].result = "empty"
    /\ chainStatus = "raised"
    /\ TaskOutcome.error = "empty"

\* C38 as stated: within one task's chain no credential index is attempted
\* twice; a task makes at most N model calls for a pool of N >= 1
\* credentials, and exactly one model call when N = 1, whatever the class
\* of the error.
C38_Original ==
    /\ \A p, q \in DOMAIN chainLog :
           chainLog[p].index = chainLog[q].index => p = q
    /\ Len(UsablePool) >= 1 => Len(chainLog) <= Len(UsablePool)
    /\ (Len(UsablePool) = 1 /\ chainStatus \in {"returned", "raised"}) =>
           Len(chainLog) = 1

\* C35 as stated: whenever a model call made for a dispatcher task fails with
\* an invalid-credential or quota error, the credential that was used is
\* marked failed in the key pool.
C35_Original ==
    \A p \in DOMAIN chainLog :
        chainLog[p].result \in {"invalid", "quota"} =>
            chainLog[p].index \in failedKeys

\* every request that was issued settles and every sleep ends
FairSpecChat == SpecChat /\ WF_vars(NextChat)

\* C34 as stated: under every interleaving of concurrent
\* callGeminiWithFallback calls sharing the key pool, the credential a call
\* marks as failed after an auth/quota error is the credential that this
\* call's failed model request used.
C34_Original ==
    \A c \in Callers : \A p \in DOMAIN chat[c].log :
        chat[c].log[p].result = "auth" =>
            chat[c].log[p].marked = chat[c].log[p].keyIndex

\* the call of caller c is over
ChatOver(c) == chat[c].status \in {"returned", "raised"}

\* what C39 says of the calls made so far by caller c
BoundedAttempts(c) ==
    LET log == chat[c].log
        maxRetries == ChatRetries(chatVariant)
    IN  /\ Len(log) <= maxRetries
        /\ \A p \in DOMAIN log : p < Len(log) => log[p].result # "ok"
        /\ chat[c].status = "returned" =>
               /\ log[Len(log)].result = "ok"
               /\ chat[c].out.kind = "reply"
        /\ chat[c].status = "raised" =>
               /\ Len(log) = maxRetries
               /\ chat[c].lastError = log[Len(log)].result
        /\ chat[c].lastError # "exhausted"
        /\ chat[c].status \in {"calling", "waiting"} =>
               chat[c].attempt < maxRetries

GithubSamples ==
    {[repo |-> [stargazers_count |-> 0, forks_count |-> 0, license |-> Null,
                age_months |-> 1],
      languages |-> <<>>, hasTests |-> FALSE, readme |-> Null,
      packageJson |-> [dependencies |-> 0]],
     [repo |-> [stargazers_count |-> 1500, forks_count |-> 200,
                license |-> "MIT", age_months |-> 30],
      languages |-> <<"TypeScript", "CSS">>, hasTests |-> TRUE,
      readme |-> "text", packageJson |-> [dependencies |-> 25]]}

\* the dimension that the reply of a task of kind "stray" reports as well
StrayKey == "security"

\* how each prompt task ends: its chain fails ("fail"), or it returns the
\* requested object ("ok"), the requested object with another dimension's
\* key beside it ("stray"), or text that cannot be parsed ("garbled")
PlanOf(ok, stray, garbled) ==
    [i \in Prompts |->
        IF i \in ok THEN "ok" ELSE IF i \in stray THEN "stray"
        ELSE IF i \in garbled THEN "garbled" ELSE "fail"]

\* the plans explored: six dimensions of which the first reports security
\* too; an unparseable reply beside one parsed reply; a single reply
PlanSamples ==
    {PlanOf({1, 3, 5, 6, 8}, {0}, {}),
     PlanOf({4}, {}, {2}),
     PlanOf({4}, {}, {})}

\* what parseGeminiResponse returns for the reply of task i
PlanData(i, kind) ==
    IF kind = "stray"
    THEN ParsedData(i, "ok", 72, "Gold")
         @@ (StrayKey :> ModuleRecord(StrayKey, 0, "Bronze", ReplyItems))
    ELSE ParsedData(i, kind, 72, "Gold")

\* as SettledOrder, but the outcomes are taken in order of completion
ArrivalOrder(arrival) == arrival

\* Promise.allSettled yields the outcomes in the order of the promises
\* array: the indices of arrival in increasing order
SettledOrder(arrival) ==
    LET indices == {arrival[p] : p \in DOMAIN arrival}
    IN  [p \in 1..Len(arrival) |->
            CHOOSE i \in indices :
                Cardinality({j \in indices : j < i}) = p - 1]

\* results.forEach: Object.assign(successfulResults, parsedData) for the
\* successful outcomes in the order given
RECURSIVE AssignInOrder(_, _, _)
AssignInOrder(order, p, acc) ==
    IF p > Len(order) THEN acc
    ELSE AssignInOrder(order, p + 1,
                       PlanData(order[p], plan[order[p]]) @@ acc)

\* as ReturnedResults, but the fetched repository data is returned as well
ReturnedWithGithubData(successfulResults, data) ==
    data @@ successfulResults

\* return successfulResults
ReturnedResults(successfulResults, data) == successfulResults

\* the promise of prompt task i settles as the plan says
OrderSettle(i) ==
    /\ pc = "launched"
    /\ task[i] = "pending"
    /\ task' = [task EXCEPT ![i] = IF plan[i] = "fail" THEN "fail" ELSE "ok"]
    /\ arrived' = IF plan[i] = "fail" THEN arrived ELSE Append(arrived, i)
    /\ UNCHANGED <<githubData, plan>>
    /\ UNCHANGED <<usableKeys, pc, fetchStatus, elapsed, timer, features,
                   outcome>>
    /\ UNCHANGED <<poolVars, chainVars, parseVars, chatVars>>

\* the join completes before the timeout: analyzeAllFeatures processes the
\* outcomes and analyzeRepo builds its report
OrderJoin ==
    /\ pc = "launched"
    /\ JoinReady(task)
    /\ LET results ==
               CollectResults(task, {i \in Prompts : plan[i] = "garbled"})
           successfulResults ==
               AssignInOrder(SettledOrder(arrived), 1, EmptyObject)
           successCount == Cardinality(DOMAIN successfulResults)
       IN  features' =
               IF EnoughFeatures(successCount)
               THEN FeaturesReturned(
                        ReturnedResults(successfulResults, githubData),
                        results, elapsed)
               ELSE FeaturesRaised(InsufficientError(successCount),
                                   "insufficient", results, elapsed)
    /\ outcome' = CompleteAnalysis(features')
    /\ pc' = "done"
    /\ UNCHANGED <<githubData, plan, arrived>>
    /\ UNCHANGED <<usableKeys, fetchStatus, task, elapsed, timer>>
    /\ UNCHANGED <<poolVars, chainVars, parseVars, chatVars>>

\* the run right after getRepositoryData has returned and the prompt tasks
\* have been launched
InitOrder ==
    /\ PoolNew(3)
    /\ usableKeys = 3
    /\ pc = "launched"
    /\ fetchStatus = "ok"
    /\ task = LaunchTasks([i \in Prompts |-> "idle"])
    /\ elapsed = 0
    /\ timer = "armed"
    /\ features = [status |-> "none", value |-> EmptyObject, error |-> <<>>,
                   cause |-> "none", results |-> EmptyObject, at |-> 0]
    /\ outcome = [kind |-> "none", report |-> EmptyObject,
                  usingFallback |-> FALSE, error |-> <<>>, cause |-> "none"]
    /\ ChainIdle
    /\ ParseIdle
    /\ ChatIdle
    /\ githubData \in GithubSamples
    /\ plan \in PlanSamples
    /\ arrived = <<>>

NextOrder ==
    \/ \E i \in Prompts : OrderSettle(i)
    \/ OrderJoin

SpecOrder == InitOrder /\ [][NextOrder]_vars

(* --------------------- properties of the fixed run --------------------- *)

\* the tasks that the plan lets succeed
PlannedSuccesses == {i \in Prompts : plan[i] # "fail"}

\* the map keyed by dimension name: each key reported by a successful task,
\* with the value of the last task of the promises array that reports it
KeyedResults ==
    LET carriers(k) ==
            {i \in PlannedSuccesses : k \in DOMAIN PlanData(i, plan[i])}
        last(k) == CHOOSE i \in carriers(k) : \A j \in carriers(k) : j <= i
        keys == UNION {DOMAIN PlanData(i, plan[i]) : i \in PlannedSuccesses}
    IN  [k \in keys |-> PlanData(last(k), plan[last(k)])[k]]

\* C33: for fixed per-task outcomes, the result of the run (returned or
\* raised, and the returned map) and what analyzeRepo builds from it are the
\* same for every order in which the tasks complete: they are the values
\* determined by the keyed map of the planned outcomes alone
C33_OrderIndependent ==
    pc = "done" =>
        /\ features.status =
               IF EnoughFeatures(Cardinality(DOMAIN KeyedResults))
               THEN "returned" ELSE "raised"
        /\ features.status = "returned" =>
               /\ features.value = KeyedResults
               /\ outcome = Aggregate(KeyedResults, FALSE)
        /\ features.status = "raised" =>
               /\ features.error =
                      InsufficientError(Cardinality(DOMAIN KeyedResults))
               /\ outcome = Aggregate(getMockAnalysisData, TRUE)

\* a report was built although the task that reports security beside its
\* own dimension completed after the security task
C33_Witness ==
    /\ pc = "done"
    /\ outcome.kind = "report"
    /\ \E p, q \in DOMAIN arrived :
           /\ p < q
           /\ arrived[p] = 5
           /\ arrived[q] = 0
           /\ plan[0] = "stray"
    /\ features.value[StrayKey].score = 72

====
